---- MODULE Spec2Model ----
(***************************************************************************)
(* Model of the JSON transcoding layer of go-grpc-http1:                   *)
(*   - jsonWriter (response transcoder): Header, WriteHeader, Write,       *)
(*     Finalize, prepareHeadersIfNecessary, fromGrpcToStatus;              *)
(*   - NewJsonReader (request frame encoder).                              *)
(*                                                                         *)
(* Go values are represented as follows.                                   *)
(*   int / int64   a pair <<hi, lo>> of base-2^16 limbs (value hi*2^16+lo),*)
(*                 because lengths above 2^31 must be representable;       *)
(*   []byte        a run-length encoded sequence of <<byte, count>> runs   *)
(*                 in canonical form (no empty run, adjacent runs differ); *)
(*   string        a sequence of one-character strings where the code      *)
(*                 formats or parses it, an opaque string otherwise;       *)
(*   []string      a record [nil, v]: Go distinguishes the nil slice from  *)
(*                 the empty one.                                          *)
(***************************************************************************)
EXTENDS Integers, Sequences, FiniteSets, TLC

VARIABLES
    \* ---- jsonWriter and the sink it wraps
    hdr,                \* w.w.Header(): header key -> []string
    statusCode,         \* w.statusCode
    body,               \* w.body (bytes.Buffer contents)
    announcedTrailers,  \* w.announcedTrailers
    sinkLog,            \* calls received by the underlying http.ResponseWriter
    sinkIsFlusher,      \* whether w.w implements http.Flusher
    cloneNilIsNil,      \* whether sliceutils.StringClone(nil) is nil
    pc,                 \* "open" until Finalize has returned, then "finalized"
    ret,                \* Finalize's return value, "none" before it returns
    \* ---- history of the handler's calls
    written,            \* bytes passed to Write so far, in call order
    accepted,           \* sum of the counts the Write calls returned
    writeFailed,        \* a Write call returned a non-nil error
    called,             \* a Write or WriteHeader call has returned
    lastStatus,         \* argument of the last WriteHeader call, if any
    statusOverwritten,  \* WriteHeader was called after an earlier WriteHeader
    lateHeaderChange,   \* the handler changed Trailer or Content-Type after
                        \* a Write or WriteHeader call had returned
    \* ---- NewJsonReader
    rBody,              \* the input stream: [data, err, closed]
    rPc,                \* "start", "returned"
    rRet,               \* NewJsonReader's results: [stream, err]
    rRest,              \* unread content of the returned stream
    rGot,               \* bytes read from the returned stream so far
    rReads,             \* number of reads issued on the returned stream
    \* ---- fromGrpcToStatus applied to a bare code
    mCode,
    mStatus

wvars ==
    <<hdr, statusCode, body, announcedTrailers, sinkLog, sinkIsFlusher,
      cloneNilIsNil, pc, ret, written, accepted, writeFailed, called,
      lastStatus, statusOverwritten, lateHeaderChange>>

rvars ==
    <<rBody, rPc, rRet, rRest, rGot, rReads>>

mvars ==
    <<mCode, mStatus>>

vars ==
    <<wvars, rvars, mvars>>

(***************************************************************************)
(* Bounds of the model.                                                    *)
(***************************************************************************)
\* Longest body the handler buffers through Write.
MaxBody == 6

\* Longest explicitly enumerated request payload.
MaxPayload == 3

\* Most reads a consumer issues on the returned stream.
MaxReads == 3

\* Largest bare code fed to fromGrpcToStatus.
MaxCode == 60

(***************************************************************************)
(* Go integers: int64 as two base-2^16 limbs.                              *)
(***************************************************************************)
Limb ==
    2^16

Int64(i) ==
    <<i \div Limb, i % Limb>>

Add64(a, b) ==
    LET lo == a[2] + b[2]
    IN  <<a[1] + b[1] + (lo \div Limb), lo % Limb>>

\* a - b for a >= b
Sub64(a, b) ==
    IF a[2] >= b[2]
    THEN <<a[1] - b[1], a[2] - b[2]>>
    ELSE <<a[1] - b[1] - 1, a[2] + Limb - b[2]>>

Leq64(a, b) ==
    a[1] < b[1] \/ (a[1] = b[1] /\ a[2] <= b[2])

Min64(a, b) ==
    IF Leq64(a, b) THEN a ELSE b

\* the conversion uint32(x): the low 32 bits
Uint32(a) ==
    <<a[1] % Limb, a[2]>>

(***************************************************************************)
(* Go byte slices, run-length encoded.                                     *)
(***************************************************************************)
\* prepend n copies of byte b
BCons(b, n, s) ==
    IF n = <<0, 0>> THEN s
    ELSE IF s # <<>> /\ s[1][1] = b
         THEN <<<<b, Add64(n, s[1][2])>>>> \o Tail(s)
         ELSE <<<<b, n>>>> \o s

RECURSIVE BLen(_)
BLen(s) ==
    IF s = <<>> THEN <<0, 0>> ELSE Add64(s[1][2], BLen(Tail(s)))

\* append(s, t...)
BCat(s, t) ==
    IF s = <<>> THEN t
    ELSE IF t = <<>> THEN s
    ELSE LET l == s[Len(s)]
             f == t[1]
         IN  IF l[1] = f[1]
             THEN SubSeq(s, 1, Len(s) - 1) \o <<<<l[1], Add64(l[2], f[2])>>>> \o Tail(t)
             ELSE s \o t

\* s[k:] for k <= len(s)
RECURSIVE BDrop(_, _)
BDrop(s, k) ==
    IF k = <<0, 0>> \/ s = <<>> THEN s
    ELSE IF Leq64(s[1][2], k)
         THEN BDrop(Tail(s), Sub64(k, s[1][2]))
         ELSE <<<<s[1][1], Sub64(s[1][2], k)>>>> \o Tail(s)

\* s[:k] for k <= len(s)
RECURSIVE BTake(_, _)
BTake(s, k) ==
    IF k = <<0, 0>> \/ s = <<>> THEN <<>>
    ELSE IF Leq64(s[1][2], k)
         THEN BCons(s[1][1], s[1][2], BTake(Tail(s), Sub64(k, s[1][2])))
         ELSE <<<<s[1][1], k>>>>

\* the []byte holding the bytes of the sequence q
RECURSIVE Bytes(_)
Bytes(q) ==
    IF q = <<>> THEN <<>> ELSE BCons(q[1], <<0, 1>>, Bytes(Tail(q)))

(***************************************************************************)
(* Go string slices and strings.                                           *)
(***************************************************************************)
NilSlice ==
    [nil |-> TRUE, v |-> <<>>]

Slice(v) ==
    [nil |-> FALSE, v |-> v]

Digits ==
    <<"0", "1", "2", "3", "4", "5", "6", "7", "8", "9">>

IsDigit(ch) ==
    \E i \in 1..10 : Digits[i] = ch

DigitVal(ch) ==
    (CHOOSE i \in 1..10 : Digits[i] = ch) - 1

\* strconv.FormatInt(n, 10) for n >= 0
RECURSIVE FormatInt(_)
FormatInt(n) ==
    LET t == (n[1] % 10) * Limb + n[2]
    IN  IF n[1] = 0 /\ n[2] < 10
        THEN <<Digits[n[2] + 1]>>
        ELSE FormatInt(<<n[1] \div 10, t \div 10>>) \o <<Digits[(t % 10) + 1]>>

(***************************************************************************)
(* google.golang.org/grpc/codes as used by the transcoder.                 *)
(***************************************************************************)
OK ==
    0

Unknown ==
    2

InvalidArgument ==
    3

DeadlineExceeded ==
    4

NotFound ==
    5

PermissionDenied ==
    7

ResourceExhausted ==
    8

FailedPrecondition ==
    9

Aborted ==
    10

Unimplemented ==
    12

Unavailable ==
    14

Unauthenticated ==
    16

\* codes._maxCode: one past the highest defined code
maxCode ==
    17

\* codes.strToCode: the JSON string forms, quotes included
strToCode ==
    <<
       <<<<"\"", "O", "K", "\"">>,
         OK>>,
       <<<<"\"", "C", "A", "N", "C", "E", "L", "L", "E", "D", "\"">>,
         1>>,
       <<<<"\"", "U", "N", "K", "N", "O", "W", "N", "\"">>,
         Unknown>>,
       <<<<"\"", "I", "N", "V", "A", "L", "I", "D", "_", "A", "R", "G", "U", "M", "E", "N", "T", "\"">>,
         InvalidArgument>>,
       <<<<"\"", "D", "E", "A", "D", "L", "I", "N", "E", "_", "E", "X", "C", "E", "E", "D", "E", "D", "\"">>,
         DeadlineExceeded>>,
       <<<<"\"", "N", "O", "T", "_", "F", "O", "U", "N", "D", "\"">>,
         NotFound>>,
       <<<<"\"", "A", "L", "R", "E", "A", "D", "Y", "_", "E", "X", "I", "S", "T", "S", "\"">>,
         6>>,
       <<<<"\"", "P", "E", "R", "M", "I", "S", "S", "I", "O", "N", "_", "D", "E", "N", "I", "E", "D", "\"">>,
         PermissionDenied>>,
       <<<<"\"", "R", "E", "S", "O", "U", "R", "C", "E", "_", "E", "X", "H", "A", "U", "S", "T", "E", "D", "\"">>,
         ResourceExhausted>>,
       <<<<"\"", "F", "A", "I", "L", "E", "D", "_", "P", "R", "E", "C", "O", "N", "D", "I", "T", "I", "O", "N", "\"">>,
         FailedPrecondition>>,
       <<<<"\"", "A", "B", "O", "R", "T", "E", "D", "\"">>,
         Aborted>>,
       <<<<"\"", "O", "U", "T", "_", "O", "F", "_", "R", "A", "N", "G", "E", "\"">>,
         11>>,
       <<<<"\"", "U", "N", "I", "M", "P", "L", "E", "M", "E", "N", "T", "E", "D", "\"">>,
         Unimplemented>>,
       <<<<"\"", "I", "N", "T", "E", "R", "N", "A", "L", "\"">>,
         13>>,
       <<<<"\"", "U", "N", "A", "V", "A", "I", "L", "A", "B", "L", "E", "\"">>,
         Unavailable>>,
       <<<<"\"", "D", "A", "T", "A", "_", "L", "O", "S", "S", "\"">>,
         15>>,
       <<<<"\"", "U", "N", "A", "U", "T", "H", "E", "N", "T", "I", "C", "A", "T", "E", "D", "\"">>,
         Unauthenticated>>
    >>

\* strconv.ParseUint(s, 10, 32): the value as int64 limbs
RECURSIVE ParseUintVal(_)
ParseUintVal(s) ==
    IF s = <<>> THEN <<0, 0>>
    ELSE LET a  == ParseUintVal(SubSeq(s, 1, Len(s) - 1))
             lo == a[2] * 10 + DigitVal(s[Len(s)])
         IN  <<a[1] * 10 + (lo \div Limb), lo % Limb>>

\* strconv.ParseUint(s, 10, 32) returns a nil error
ParseUintOk(s) ==
    /\ s # <<>>
    /\ \A i \in 1..Len(s) : IsDigit(s[i])
    /\ ParseUintVal(s)[1] < Limb

\* mutant: a number is stored without the range check against maxCode
UnmarshalJSON_noRangeCheck(c, b) ==
    IF b = <<"n", "u", "l", "l">> THEN c
    ELSE IF ParseUintOk(b)
         THEN LET ci == ParseUintVal(b)
              IN  IF ci[1] = 0 THEN ci[2] ELSE c
         ELSE IF \E i \in 1..Len(strToCode) : strToCode[i][1] = b
              THEN strToCode[CHOOSE i \in 1..Len(strToCode) : strToCode[i][1] = b][2]
              ELSE c

\* (*codes.Code).UnmarshalJSON(b) on a Code holding c: the value held afterwards
UnmarshalJSON(c, b) ==
    IF b = <<"n", "u", "l", "l">> THEN c
    ELSE IF ParseUintOk(b)
         THEN LET ci == ParseUintVal(b)
              IN  IF ~(ci[1] = 0 /\ ci[2] < maxCode) THEN c ELSE ci[2]
         ELSE IF \E i \in 1..Len(strToCode) : strToCode[i][1] = b
              THEN strToCode[CHOOSE i \in 1..Len(strToCode) : strToCode[i][1] = b][2]
              ELSE c

\* mutant: the NotFound and InvalidArgument results are exchanged
fromGrpcToStatus_swapped(code) ==
    CASE code = OK                 -> 200
      [] code = InvalidArgument    -> 404
      [] code = NotFound           -> 400
      [] code = PermissionDenied   -> 403
      [] code = Unauthenticated    -> 401
      [] code = ResourceExhausted  -> 429
      [] code = Unimplemented      -> 501
      [] code = Aborted            -> 444
      [] code = DeadlineExceeded   -> 504
      [] code = Unavailable        -> 503
      [] code = FailedPrecondition -> 428
      [] code = Unknown            -> 500
      [] OTHER                     -> 500

\* mutant: a code outside the table is answered with 200
fromGrpcToStatus_defaultOK(code) ==
    CASE code = OK                 -> 200
      [] code = InvalidArgument    -> 400
      [] code = NotFound           -> 404
      [] code = PermissionDenied   -> 403
      [] code = Unauthenticated    -> 401
      [] code = ResourceExhausted  -> 429
      [] code = FailedPrecondition -> 428
      [] code = Aborted            -> 444
      [] code = Unimplemented      -> 501
      [] code = Unavailable        -> 503
      [] code = DeadlineExceeded   -> 504
      [] code = Unknown            -> 500
      [] OTHER                     -> 200

\* mutant: Aborted is answered with 409 Conflict
fromGrpcToStatus_conflict(code) ==
    CASE code = OK                 -> 200
      [] code = InvalidArgument    -> 400
      [] code = NotFound           -> 404
      [] code = PermissionDenied   -> 403
      [] code = Unauthenticated    -> 401
      [] code = ResourceExhausted  -> 429
      [] code = Unimplemented      -> 501
      [] code = Aborted            -> 409
      [] code = DeadlineExceeded   -> 504
      [] code = Unavailable        -> 503
      [] code = FailedPrecondition -> 428
      [] code = Unknown            -> 500
      [] OTHER                     -> 500

\* the error (*codes.Code).UnmarshalJSON(b) returns
UnmarshalJSONErr(b) ==
    IF b = <<"n", "u", "l", "l">> THEN "nil"
    ELSE IF ParseUintOk(b)
         THEN LET ci == ParseUintVal(b)
              IN  IF ~(ci[1] = 0 /\ ci[2] < maxCode) THEN "errInvalidCode" ELSE "nil"
         ELSE IF \E i \in 1..Len(strToCode) : strToCode[i][1] = b
              THEN "nil"
              ELSE "errInvalidCode"

fromGrpcToStatus(code) ==
    CASE code = OK                 -> 200
      [] code = InvalidArgument    -> 400
      [] code = NotFound           -> 404
      [] code = PermissionDenied   -> 403
      [] code = Unauthenticated    -> 401
      [] code = ResourceExhausted  -> 429
      [] code = Unimplemented      -> 501
      [] code = Aborted            -> 444
      [] code = DeadlineExceeded   -> 504
      [] code = Unavailable        -> 503
      [] code = FailedPrecondition -> 428
      [] code = Unknown            -> 500
      [] OTHER                     -> 500

(***************************************************************************)
(* net/http.Header of the underlying response writer.                      *)
(***************************************************************************)
HeaderKeys ==
    {"Trailer", "Content-Type", "Content-Length", "Grpc-Status"}

\* http.Header.Get: the first value of the key, "" when there is none
Get(h, key) ==
    IF h[key].v = <<>> THEN <<>> ELSE h[key].v[1]

\* http.Header.Set
Set(h, key, value) ==
    [h EXCEPT ![key] = Slice(<<value>>)]

\* http.Header.Del
Del(h, key) ==
    [h EXCEPT ![key] = NilSlice]

\* Grpc-Status values a handler sets
GrpcStatusValues ==
    { <<"0">>, <<"5">>, <<"1", "6">>, <<"1", "7">>, <<"1">>, <<"9", "9">>,
      <<"1", "3">>, <<"O", "K">>,
      <<"\"", "N", "O", "T", "_", "F", "O", "U", "N", "D", "\"">> }

\* the value lists a handler stores under each key
HandlerValues(key) ==
    CASE key = "Trailer" ->
             { Slice(<<>>), Slice(<<"Grpc-Status", "Grpc-Message">>) }
      [] key = "Content-Type" ->
             { Slice(<<"application/grpc">>) }
      [] key = "Content-Length" ->
             { Slice(<< <<"9", "9">> >>) }
      [] key = "Grpc-Status" ->
             { Slice(<<v>>) : v \in GrpcStatusValues }

\* status codes a handler passes to WriteHeader
HandlerStatusCodes ==
    {0, 201, 404}

\* buffers a handler passes to Write
HandlerChunks ==
    { <<>>, <<0, 0, 0>>, <<7, 1>> }

\* errors the sink's Write returns
SinkWriteErrors ==
    {"nil", "errSinkWrite"}

(***************************************************************************)
(* jsonWriter                                                              *)
(***************************************************************************)
\* sliceutils.StringClone
StringClone(in) ==
    IF in.nil
    THEN IF cloneNilIsNil THEN NilSlice ELSE Slice(<<>>)
    ELSE Slice(in.v)

\* mutant: the Trailer header is saved but left on the sink
prepareHeaders_keepTrailer(h, at) ==
    IF ~at.nil
    THEN [hdr |-> h, announcedTrailers |-> at]
    ELSE [hdr |-> Set(h, "Content-Type", "application/json"),
          announcedTrailers |-> StringClone(h["Trailer"])]

\* mutant: Content-Type is left as the handler set it
prepareHeaders_keepContentType(h, at) ==
    IF ~at.nil
    THEN [hdr |-> h, announcedTrailers |-> at]
    ELSE [hdr |-> Del(h, "Trailer"),
          announcedTrailers |-> StringClone(h["Trailer"])]

\* mutant: the headers are prepared on every call
prepareHeaders_everyCall(h, at) ==
    [hdr |-> Set(Del(h, "Trailer"), "Content-Type", "application/json"),
     announcedTrailers |-> StringClone(h["Trailer"])]

\* the header map and announcedTrailers after prepareHeadersIfNecessary
prepareHeadersIfNecessary(h, at) ==
    IF ~at.nil
    THEN [hdr |-> h, announcedTrailers |-> at]
    ELSE [hdr |-> Set(Del(h, "Trailer"), "Content-Type", "application/json"),
          announcedTrailers |-> StringClone(h["Trailer"])]

WInit ==
    /\ hdr = [k \in HeaderKeys |-> NilSlice]
    /\ statusCode = 0
    /\ body = <<>>
    /\ announcedTrailers = NilSlice
    /\ sinkLog = <<>>
    /\ sinkIsFlusher \in BOOLEAN
    /\ cloneNilIsNil \in BOOLEAN
    /\ pc = "open"
    /\ ret = "none"
    /\ written = <<>>
    /\ accepted = 0
    /\ writeFailed = FALSE
    /\ called = FALSE
    /\ lastStatus = [set |-> FALSE, code |-> 0]
    /\ statusOverwritten = FALSE
    /\ lateHeaderChange = FALSE

\* whether a change of the header map by the handler counts as late
LateChange(h, h2) ==
    called /\ (h2["Trailer"] # h["Trailer"] \/ h2["Content-Type"] # h["Content-Type"])

\* the handler stores a value list through Header()
HeaderSet ==
    /\ pc = "open"
    /\ \E key \in HeaderKeys : \E vals \in HandlerValues(key) :
           hdr' = [hdr EXCEPT ![key] = vals]
    /\ lateHeaderChange' = (lateHeaderChange \/ LateChange(hdr, hdr'))
    /\ UNCHANGED <<statusCode, body, announcedTrailers, sinkLog, sinkIsFlusher,
                   cloneNilIsNil, pc, ret, written, accepted, writeFailed,
                   called, lastStatus, statusOverwritten, rvars, mvars>>

\* the handler deletes a key through Header()
HeaderDel ==
    /\ pc = "open"
    /\ \E key \in HeaderKeys : hdr' = Del(hdr, key)
    /\ lateHeaderChange' = (lateHeaderChange \/ LateChange(hdr, hdr'))
    /\ UNCHANGED <<statusCode, body, announcedTrailers, sinkLog, sinkIsFlusher,
                   cloneNilIsNil, pc, ret, written, accepted, writeFailed,
                   called, lastStatus, statusOverwritten, rvars, mvars>>

\* mutant: Flush passes the flush on to a sink that supports it
Flush_forward ==
    /\ pc = "open"
    /\ sinkLog' = sinkLog \o (IF sinkIsFlusher THEN <<[op |-> "Flush"]>> ELSE <<>>)
    /\ UNCHANGED <<hdr, statusCode, body, announcedTrailers, sinkIsFlusher,
                   cloneNilIsNil, pc, ret, written, accepted, writeFailed, called,
                   lastStatus, statusOverwritten, lateHeaderChange, rvars, mvars>>

\* Flush does nothing
Flush ==
    /\ pc = "open"
    /\ UNCHANGED vars

\* mutant: a status once set is kept
storeStatus_firstWins(old, code) ==
    IF old # 0 THEN old ELSE code

\* the statusCode field after WriteHeader(code)
storeStatus(old, code) ==
    code

WriteHeader ==
    /\ pc = "open"
    /\ \E code \in HandlerStatusCodes :
           LET p == prepareHeadersIfNecessary(hdr, announcedTrailers)
           IN  /\ hdr' = p.hdr
               /\ announcedTrailers' = p.announcedTrailers
               /\ statusCode' = storeStatus(statusCode, code)
               /\ lastStatus' = [set |-> TRUE, code |-> code]
    /\ statusOverwritten' = (statusOverwritten \/ lastStatus.set)
    /\ called' = TRUE
    /\ UNCHANGED <<body, sinkLog, sinkIsFlusher, cloneNilIsNil, pc, ret, written,
                   accepted, writeFailed, lateHeaderChange, rvars, mvars>>

Write ==
    /\ pc = "open"
    /\ \E buf \in HandlerChunks :
           LET p == prepareHeadersIfNecessary(hdr, announcedTrailers)
           IN  /\ Len(written) + Len(buf) <= MaxBody
               /\ hdr' = p.hdr
               /\ announcedTrailers' = p.announcedTrailers
               /\ body' = BCat(body, Bytes(buf))
               /\ accepted' = accepted + Len(buf)
               /\ writeFailed' = writeFailed
               /\ written' = written \o buf
    /\ called' = TRUE
    /\ UNCHANGED <<statusCode, sinkLog, sinkIsFlusher, cloneNilIsNil, pc, ret,
                   lastStatus, statusOverwritten, lateHeaderChange, rvars, mvars>>

\* mutant: only a body longer than the frame header is stripped
FinalBody_longerThanHeader(buffered) ==
    IF ~Leq64(BLen(buffered), Int64(5)) THEN BDrop(buffered, Int64(5)) ELSE buffered

\* mutant: the buffered bytes are sent as they are
FinalBody_keepFrame(buffered) ==
    buffered

\* the body Finalize sends
FinalBody(buffered) ==
    IF Leq64(Int64(5), BLen(buffered)) THEN BDrop(buffered, Int64(5)) ELSE buffered

\* mutant: the length of the buffered body, frame header included
FinalContentLength_buffered(buffered) ==
    FormatInt(BLen(buffered))

\* the Content-Length value Finalize sets
FinalContentLength(buffered) ==
    FormatInt(BLen(FinalBody(buffered)))

\* mutant: a Grpc-Status header takes precedence over the explicit status
FinalStatus_headerFirst(sc, h) ==
    IF sc # 0 /\ h["Grpc-Status"].v = <<>> THEN sc
    ELSE fromGrpcToStatus(UnmarshalJSON(0, Get(h, "Grpc-Status")))

\* the status Finalize sends
FinalStatus(sc, h) ==
    IF sc # 0 THEN sc
    ELSE fromGrpcToStatus(UnmarshalJSON(0, Get(h, "Grpc-Status")))

\* mutant: the sink is flushed whatever its Write returned
FinalFlush_always(werr, flusher) ==
    IF flusher THEN <<[op |-> "Flush"]>> ELSE <<>>

\* the flush at the end of Finalize: reached when w.w.Write returned no error,
\* made when the sink is an http.Flusher
FinalFlush(werr, flusher) ==
    IF werr = "nil" /\ flusher THEN <<[op |-> "Flush"]>> ELSE <<>>

\* mutant: the body is written before the status line
FinalSinkCalls_bodyFirst(code, h, out, werr, flusher) ==
    <<[op |-> "Write", body |-> out, err |-> werr],
      [op |-> "WriteHeader", code |-> code, hdr |-> h]>> \o FinalFlush(werr, flusher)

\* the calls Finalize makes on the sink, in order
FinalSinkCalls(code, h, out, werr, flusher) ==
    <<[op |-> "WriteHeader", code |-> code, hdr |-> h],
      [op |-> "Write", body |-> out, err |-> werr]>> \o FinalFlush(werr, flusher)

\* mutant: a Grpc-Status that does not parse is reported too
FinalizeResult_parseError(parseErr, werr) ==
    IF werr # "nil" THEN werr ELSE parseErr

\* what Finalize returns, given the results of UnmarshalJSON and of w.w.Write
FinalizeResult(parseErr, werr) ==
    werr

Finalize ==
    /\ pc = "open"
    /\ \E werr \in SinkWriteErrors :
           LET p   == prepareHeadersIfNecessary(hdr, announcedTrailers)
               out == FinalBody(body)
               h   == Set(p.hdr, "Content-Length", FinalContentLength(body))
           IN  /\ hdr' = h
               /\ announcedTrailers' = p.announcedTrailers
               /\ sinkLog' = sinkLog \o FinalSinkCalls(FinalStatus(statusCode, h), h,
                                                       out, werr, sinkIsFlusher)
               /\ ret' = FinalizeResult(UnmarshalJSONErr(Get(h, "Grpc-Status")), werr)
    /\ pc' = "finalized"
    /\ UNCHANGED <<statusCode, body, sinkIsFlusher, cloneNilIsNil, written,
                   accepted, writeFailed, called, lastStatus, statusOverwritten,
                   lateHeaderChange, rvars, mvars>>

WNext ==
    \/ HeaderSet
    \/ HeaderDel
    \/ Flush
    \/ WriteHeader
    \/ Write
    \/ Finalize

(***************************************************************************)
(* NewJsonReader                                                           *)
(***************************************************************************)
\* make([]byte, n)
Make(n) ==
    BCons(0, n, <<>>)

\* copy(dst[off:], src) for off <= len(dst): dst afterwards
Copy(dst, off, src) ==
    LET k == Min64(BLen(src), Sub64(BLen(dst), off))
    IN  BCat(BCat(BTake(dst, off), BTake(src, k)), BDrop(dst, Add64(off, k)))

\* binary.BigEndian.PutUint32(b[off:], v): b afterwards
PutUint32(b, off, v) ==
    Copy(b, off, Bytes(<<v[1] \div 256, v[1] % 256, v[2] \div 256, v[2] % 256>>))

\* the buffer NewJsonReader builds around content
newBody(content) ==
    LET n  == BLen(content)
        b0 == Make(Add64(n, Int64(5)))
        b1 == PutUint32(b0, Int64(1), Uint32(n))
    IN  Copy(b1, Int64(5), content)

\* bytes of the enumerated request payloads
PayloadBytes ==
    {0, 7}

RECURSIVE SeqsUpTo(_, _)
SeqsUpTo(S, n) ==
    IF n = 0 THEN {<<>>}
    ELSE LET shorter == SeqsUpTo(S, n - 1)
         IN  shorter \cup {Append(q, x) : q \in shorter, x \in S}

\* payloads too long to enumerate byte by byte: 2^32 - 1, 2^32 and 2^32 + 7 bytes
HugePayloads ==
    { <<<<0, <<Limb - 1, Limb - 1>>>>>>,
      <<<<7, <<Limb, 0>>>>>>,
      <<<<1, <<0, 7>>>>, <<7, <<Limb, 0>>>>>> }

\* what the input stream delivers before it ends
ReaderPayloads ==
    {Bytes(q) : q \in SeqsUpTo(PayloadBytes, MaxPayload)}
        \cup {Bytes(<<123, 34, 97, 34, 58, 49, 125>>)}
        \cup HugePayloads

\* how the input stream ends: io.EOF ("nil" from ReadAll) or a read error
ReadErrors ==
    {"nil", "errUnexpectedEOF", "errClosedPipe"}

\* sizes of the reads a consumer issues on the returned stream
ReadSizes ==
    {Int64(1), Int64(5), <<4 * Limb, 0>>}

RInit ==
    /\ rBody \in [data : ReaderPayloads, err : ReadErrors, closed : {0}]
    /\ rPc = "start"
    /\ rRet = [stream |-> "none", err |-> "none"]
    /\ rRest = <<>>
    /\ rGot = <<>>
    /\ rReads = 0

RIdle ==
    /\ rBody = [data |-> <<>>, err |-> "nil", closed |-> 0]
    /\ rPc = "idle"
    /\ rRet = [stream |-> "none", err |-> "none"]
    /\ rRest = <<>>
    /\ rGot = <<>>
    /\ rReads = 0

\* ioutil.ReadAll(body): everything delivered, and the error unless it is io.EOF
ReadAll(b) ==
    [content |-> b.data, err |-> b.err]

\* mutant: on a read error the bytes read so far are framed and returned
NewJsonReader_partial ==
    /\ rPc = "start"
    /\ LET r == ReadAll(rBody)
       IN  /\ rRet' = [stream |-> "jsonReader", err |-> r.err]
           /\ rRest' = newBody(r.content)
           /\ rBody' = [rBody EXCEPT !.closed = @ + 1]
    /\ rPc' = "returned"
    /\ UNCHANGED <<rGot, rReads, wvars, mvars>>

NewJsonReader ==
    /\ rPc = "start"
    /\ LET r == ReadAll(rBody)
       IN  IF r.err # "nil"
           THEN /\ rRet' = [stream |-> "nil", err |-> r.err]
                /\ UNCHANGED <<rBody, rRest>>
           ELSE /\ rRet' = [stream |-> "jsonReader", err |-> "nil"]
                /\ rRest' = newBody(r.content)
                /\ rBody' = [rBody EXCEPT !.closed = @ + 1]
    /\ rPc' = "returned"
    /\ UNCHANGED <<rGot, rReads, wvars, mvars>>

\* jsonReader.Read: a read on the returned stream
StreamRead ==
    /\ rPc = "returned"
    /\ rRet.stream = "jsonReader"
    /\ rRest # <<>>
    /\ rReads < MaxReads
    /\ rReads' = rReads + 1
    /\ \E size \in ReadSizes :
           LET k == Min64(size, BLen(rRest))
           IN  /\ rGot' = BCat(rGot, BTake(rRest, k))
               /\ rRest' = BDrop(rRest, k)
    /\ UNCHANGED <<rBody, rPc, rRet, wvars, mvars>>

RNext ==
    \/ NewJsonReader
    \/ StreamRead

(***************************************************************************)
(* The frame of NewJsonReader written to a jsonWriter                      *)
(***************************************************************************)
\* a handler reads the next bytes of the stream NewJsonReader returned and
\* passes them to jsonWriter.Write
EchoWrite ==
    /\ rPc = "returned"
    /\ rRet.stream = "jsonReader"
    /\ rRest # <<>>
    /\ rReads < MaxReads
    /\ pc = "open"
    /\ rReads' = rReads + 1
    /\ \E size \in ReadSizes :
           LET k   == Min64(size, BLen(rRest))
               buf == BTake(rRest, k)
               p   == prepareHeadersIfNecessary(hdr, announcedTrailers)
           IN  /\ rGot' = BCat(rGot, buf)
               /\ rRest' = BDrop(rRest, k)
               /\ hdr' = p.hdr
               /\ announcedTrailers' = p.announcedTrailers
               /\ body' = BCat(body, buf)
    /\ called' = TRUE
    /\ UNCHANGED <<rBody, rPc, rRet, statusCode, sinkLog, sinkIsFlusher,
                   cloneNilIsNil, pc, ret, written, accepted, writeFailed,
                   lastStatus, statusOverwritten, lateHeaderChange, mvars>>

(***************************************************************************)
(* fromGrpcToStatus on its own                                             *)
(***************************************************************************)
MapperCodes ==
    0..MaxCode \cup {255, 65535, 2147483647}

MInit ==
    /\ mCode \in MapperCodes
    /\ mStatus = 0

MIdle ==
    /\ mCode = 0
    /\ mStatus = 0

MapStatus ==
    /\ mStatus = 0
    /\ mStatus' = fromGrpcToStatus(mCode)
    /\ UNCHANGED <<mCode, wvars, rvars>>

WIdle ==
    /\ hdr = [k \in HeaderKeys |-> NilSlice]
    /\ statusCode = 0
    /\ body = <<>>
    /\ announcedTrailers = NilSlice
    /\ sinkLog = <<>>
    /\ sinkIsFlusher = FALSE
    /\ cloneNilIsNil = FALSE
    /\ pc = "idle"
    /\ ret = "none"
    /\ written = <<>>
    /\ accepted = 0
    /\ writeFailed = FALSE
    /\ called = FALSE
    /\ lastStatus = [set |-> FALSE, code |-> 0]
    /\ statusOverwritten = FALSE
    /\ lateHeaderChange = FALSE

(***************************************************************************)
(* Specifications                                                          *)
(***************************************************************************)
Init ==
    WInit /\ RIdle /\ MIdle

Next ==
    WNext

\* the response transcoder driven by a handler
Spec ==
    Init /\ [][Next]_vars

\* the request frame encoder and its returned stream
InitReader ==
    WIdle /\ RInit /\ MIdle

SpecReader ==
    InitReader /\ [][RNext]_vars

\* the status mapper over bare codes
InitRoundTrip ==
    WInit /\ RInit /\ MIdle

NextRoundTrip ==
    \/ NewJsonReader
    \/ EchoWrite
    \/ Finalize

SpecRoundTrip ==
    InitRoundTrip /\ [][NextRoundTrip]_vars

InitMapper ==
    WIdle /\ RIdle /\ MInit

MNext ==
    MapStatus

SpecMapper ==
    InitMapper /\ [][MNext]_vars

(***************************************************************************)
(* Observations used by the properties below.                              *)
(***************************************************************************)
\* the calls of one kind the sink received, in order
SinkCalls(op) ==
    SelectSeq(sinkLog, LAMBDA e : e.op = op)

\* the bytes of a short []byte, one element per byte
RECURSIVE Expand(_)
Expand(s) ==
    IF s = <<>> THEN <<>>
    ELSE [i \in 1..s[1][2][2] |-> s[1][1]] \o Expand(Tail(s))

\* the decimal text of a natural number
RECURSIVE DecimalOf(_)
DecimalOf(n) ==
    IF n < 10 THEN <<Digits[n + 1]>>
    ELSE DecimalOf(n \div 10) \o <<Digits[(n % 10) + 1]>>

\* the StatusMapper table of the specification, indexed by code + 1 for the
\* protocol's codes 0..16
StatusTable ==
    <<200, 500, 500, 400, 504, 404, 500, 403, 429, 428, 444, 500, 501, 500, 503,
      500, 401>>

\* Grpc-Status values that are not a protocol status code: empty text, text
\* that is neither a number nor a quoted code name, numbers above the codes
NotAStatusCode ==
    { <<>>, <<"O", "K">>, <<"1", "7">>, <<"9", "9">> }

(***************************************************************************)
(* Properties of the response transcoder (specification Spec)              *)
(***************************************************************************)
\* C1: every Write reports all its bytes accepted and no error, and with R
\* the concatenation of the written chunks, Finalize sends the sink exactly
\* one body: R[5:] when len(R) >= 5, R itself when len(R) < 5.
C1_FinalizeStripsFrameHeader ==
    /\ accepted = Len(written)
    /\ ~writeFailed
    /\ pc = "finalized" =>
           /\ Len(SinkCalls("Write")) = 1
           /\ Expand(SinkCalls("Write")[1].body) =
                  IF Len(written) >= 5
                  THEN SubSeq(written, 6, Len(written))
                  ELSE written

C1_Witness ==
    /\ pc = "finalized"
    /\ written = <<7, 1, 7, 1, 7, 1>>
    /\ Expand(SinkCalls("Write")[1].body) = <<1>>

\* C3 as stated: once WriteHeader(code) was called, Finalize sends that code
\* as the HTTP status, for every code passed and whatever Grpc-Status holds.
C3_ExplicitStatusAnyCode ==
    (pc = "finalized" /\ lastStatus.set) =>
        /\ Len(SinkCalls("WriteHeader")) = 1
        /\ SinkCalls("WriteHeader")[1].code = lastStatus.code

\* C3 amended: when the last WriteHeader call before Finalize passed a
\* non-zero code, Finalize sends that code as the HTTP status whatever
\* Grpc-Status holds (a last code of 0 counts as no explicit status).
C3_ExplicitStatusNonZero ==
    (pc = "finalized" /\ lastStatus.set /\ lastStatus.code # 0) =>
        /\ Len(SinkCalls("WriteHeader")) = 1
        /\ SinkCalls("WriteHeader")[1].code = lastStatus.code

C3_Witness ==
    /\ pc = "finalized"
    /\ lastStatus = [set |-> TRUE, code |-> 201]
    /\ Get(hdr, "Grpc-Status") = <<"5">>
    /\ SinkCalls("WriteHeader")[1].code = 201

\* C4: when WriteHeader was never called and Grpc-Status holds a valid
\* protocol status code c (its decimal text, or its quoted name) when Finalize
\* runs, Finalize sends the HTTP status the StatusMapper table gives for c.
C4_StatusFromGrpcStatus ==
    (pc = "finalized" /\ ~lastStatus.set) =>
        /\ \A c \in 0..16 :
               Get(hdr, "Grpc-Status") = DecimalOf(c) =>
                   SinkCalls("WriteHeader")[1].code = StatusTable[c + 1]
        /\ Get(hdr, "Grpc-Status")
               = <<"\"", "N", "O", "T", "_", "F", "O", "U", "N", "D", "\"">> =>
                   SinkCalls("WriteHeader")[1].code = 404

C4_Witness ==
    /\ pc = "finalized"
    /\ ~lastStatus.set
    /\ written # <<>>
    /\ Get(hdr, "Grpc-Status") = <<"1", "6">>
    /\ SinkCalls("WriteHeader")[1].code = 401

\* C5: when WriteHeader was never called and Grpc-Status is absent or is not
\* a protocol status code, Finalize sends HTTP status 200 and returns nothing
\* but the outcome of the sink's body write.
C5_StatusFallback ==
    (/\ pc = "finalized"
     /\ ~lastStatus.set
     /\ (hdr["Grpc-Status"].nil \/ Get(hdr, "Grpc-Status") \in NotAStatusCode)) =>
        /\ SinkCalls("WriteHeader")[1].code = 200
        /\ ret \in SinkWriteErrors

C5_Witness ==
    /\ pc = "finalized"
    /\ ~lastStatus.set
    /\ Get(hdr, "Grpc-Status") = <<"1", "7">>
    /\ SinkCalls("WriteHeader")[1].code = 200
    /\ ret = "nil"

\* C6: the headers the sink holds when Finalize writes the status line carry
\* a Content-Length equal to the decimal length of the body Finalize then
\* writes, whatever Content-Length the handler had set.
C6_ContentLengthMatchesBody ==
    pc = "finalized" =>
        SinkCalls("WriteHeader")[1].hdr["Content-Length"]
            = Slice(<<DecimalOf(Len(Expand(SinkCalls("Write")[1].body)))>>)

C6_Witness ==
    /\ pc = "finalized"
    /\ Len(written) = 6
    /\ SinkCalls("WriteHeader")[1].hdr["Content-Length"] = Slice(<< <<"1">> >>)
    /\ Len(Expand(SinkCalls("Write")[1].body)) = 1

\* C7: right after the first Write or WriteHeader call returns, the sink has
\* no Trailer header and announcedTrailers lists the values the Trailer header
\* held just before the call.
C7_FirstCallHidesTrailer ==
    [][(~called /\ called') =>
           /\ hdr'["Trailer"] = NilSlice
           /\ announcedTrailers'.v = hdr["Trailer"].v]_vars

C7_Witness ==
    /\ pc = "open"
    /\ called
    /\ hdr["Trailer"] = NilSlice
    /\ announcedTrailers = Slice(<<"Grpc-Status", "Grpc-Message">>)

(***************************************************************************)
(* Properties of the request frame encoder (specification SpecReader)      *)
(***************************************************************************)
\* the byte at index i (from 0) of a []byte
RECURSIVE ByteAt(_, _)
ByteAt(s, i) ==
    IF Leq64(s[1][2], i) THEN ByteAt(Tail(s), Sub64(i, s[1][2])) ELSE s[1][1]

\* C2: for every payload B read without error the returned stream holds
\* len(B)+5 bytes: byte 0 is 0x00, bytes 1-4 are len(B) as a big-endian
\* unsigned number, bytes 5.. are B.
C2_EncodeFramesPayload ==
    (rPc = "returned" /\ rBody.err = "nil" /\ rRest = <<>> /\ rGot # <<>>) =>
        /\ BLen(rGot) = Add64(BLen(rBody.data), Int64(5))
        /\ ByteAt(rGot, Int64(0)) = 0
        /\ <<ByteAt(rGot, Int64(1)) * 256 + ByteAt(rGot, Int64(2)),
             ByteAt(rGot, Int64(3)) * 256 + ByteAt(rGot, Int64(4))>>
               = BLen(rBody.data)
        /\ BDrop(rGot, Int64(5)) = rBody.data

\* C8: NewJsonReader closes the input stream exactly once, when the read
\* succeeds and when it fails.
C8_InputClosedOnce ==
    rPc = "returned" => rBody.closed = 1

\* C9: when reading the input fails, NewJsonReader returns the read's error
\* and no stream.
C9_ReadErrorSurfaced ==
    (rPc = "returned" /\ rBody.err # "nil") =>
        /\ rRet = [stream |-> "nil", err |-> rBody.err]
        /\ rRest = <<>>
        /\ rGot = <<>>
        /\ rReads = 0

C9_Witness ==
    /\ rPc = "returned"
    /\ rBody.err = "errClosedPipe"
    /\ rBody.data = Bytes(<<7, 0, 7>>)
    /\ rRet.err = "errClosedPipe"

(***************************************************************************)
(* Properties of the status mapper (specification SpecMapper)              *)
(***************************************************************************)
\* the pairs the specification lists for the StatusMapper
MapperPairs ==
    { <<OK, 200>>, <<InvalidArgument, 400>>, <<NotFound, 404>>,
      <<PermissionDenied, 403>>, <<Unauthenticated, 401>>,
      <<ResourceExhausted, 429>>, <<Unimplemented, 501>>, <<Aborted, 444>>,
      <<DeadlineExceeded, 504>>, <<Unavailable, 503>>,
      <<FailedPrecondition, 428>>, <<Unknown, 500>> }

\* C10: fromGrpcToStatus answers every code: the listed codes with the listed
\* status, every other code with 500.
C10_StatusMapperTable ==
    mStatus # 0 =>
        /\ \A p \in MapperPairs : mCode = p[1] => mStatus = p[2]
        /\ (\A p \in MapperPairs : mCode # p[1]) => mStatus = 500

C10_Witness ==
    mCode = Aborted /\ mStatus = 444

C12_FinalizeReturnsWriteError ==
    pc = "finalized" =>
        /\ Len(SinkCalls("Write")) = 1
        /\ ret = SinkCalls("Write")[1].err

C12_Witness ==
    /\ pc = "finalized"
    /\ Get(hdr, "Grpc-Status") = <<"9", "9">>
    /\ SinkCalls("Write")[1].err = "nil"
    /\ ret = "nil"

\* the headers as header preparation leaves them
HeadersPrepared(h) ==
    /\ h["Content-Type"] = Slice(<<"application/json">>)
    /\ h["Trailer"].v = <<>>

\* C13 as stated: whatever the handler did before Finalize, header changes
\* after the first Write included, the headers the sink holds when Finalize
\* writes the status line have Content-Type application/json and no Trailer.
C13_FinalHeadersPrepared ==
    pc = "finalized" => HeadersPrepared(SinkCalls("WriteHeader")[1].hdr)

\* C13 amended: when the handler changed neither Trailer nor Content-Type
\* after a Write or WriteHeader call, the headers the sink holds when Finalize
\* writes the status line have Content-Type application/json and no Trailer,
\* also when no body was written.
C13_FinalHeadersPreparedUnlessChangedLate ==
    (pc = "finalized" /\ ~lateHeaderChange) =>
        HeadersPrepared(SinkCalls("WriteHeader")[1].hdr)

C13_Witness ==
    /\ pc = "finalized"
    /\ ~lateHeaderChange
    /\ written = <<7, 1>>
    /\ announcedTrailers = Slice(<<"Grpc-Status", "Grpc-Message">>)
    /\ hdr["Grpc-Status"] = Slice(<< <<"5">> >>)
    /\ HeadersPrepared(SinkCalls("WriteHeader")[1].hdr)

C15_FinalizeOrder ==
    pc = "finalized" =>
        /\ Len(sinkLog) \in {2, 3}
        /\ sinkLog[1].op = "WriteHeader"
        /\ sinkLog[2].op = "Write"
        /\ Len(sinkLog) = 3 => sinkLog[3].op = "Flush"
        /\ ~sinkLog[1].hdr["Content-Length"].nil
        /\ hdr = sinkLog[1].hdr

C15_Witness ==
    /\ pc = "finalized"
    /\ Len(sinkLog) = 3
    /\ written = <<0, 0, 0, 7, 1>>
    /\ hdr["Content-Length"] = Slice(<< <<"0">> >>)

\* C16 as stated: a sink that supports flushing is flushed exactly once,
\* after the body write, whether or not that write reported an error; a sink
\* that does not is never flushed.
C16_FlushedOnEveryPath ==
    pc = "finalized" =>
        /\ Len(SinkCalls("Flush")) = (IF sinkIsFlusher THEN 1 ELSE 0)
        /\ sinkIsFlusher => sinkLog[Len(sinkLog)].op = "Flush"

\* C16 amended: a sink that supports flushing is flushed exactly once, after
\* the body write, when that write reported no error; Finalize does not
\* flush when the write reported an error or the sink cannot be flushed.
C16_FlushedAfterGoodWrite ==
    pc = "finalized" =>
        LET flush == sinkIsFlusher /\ SinkCalls("Write")[1].err = "nil"
        IN  /\ Len(SinkCalls("Flush")) = (IF flush THEN 1 ELSE 0)
            /\ flush => sinkLog[Len(sinkLog)].op = "Flush"

C16_Witness ==
    /\ pc = "finalized"
    /\ sinkIsFlusher
    /\ written = <<7, 1>>
    /\ SinkCalls("Write")[1].err = "nil"
    /\ sinkLog[3].op = "Flush"

\* decimal Grpc-Status values outside the status table: two codes the
\* protocol defines and two numbers above its highest code
UnlistedCodes ==
    { <<"1">>, <<"1", "3">>, <<"1", "7">>, <<"9", "9">> }

\* C17 as stated: without an explicit status, a decimal Grpc-Status that is
\* not one of the twelve codes of the table makes Finalize send 500.
C17_UnlistedCodeIs500 ==
    (pc = "finalized" /\ ~lastStatus.set
        /\ Get(hdr, "Grpc-Status") \in UnlistedCodes) =>
        SinkCalls("WriteHeader")[1].code = 500

\* C17 amended: without an explicit status, a decimal Grpc-Status from 0 to
\* 16 that is not one of the twelve codes of the table makes Finalize send
\* 500.
C17_UnlistedDefinedCodeIs500 ==
    (pc = "finalized" /\ ~lastStatus.set
        /\ Get(hdr, "Grpc-Status") \in { v \in UnlistedCodes :
               \E n \in 0..16 : v = DecimalOf(n) }) =>
        SinkCalls("WriteHeader")[1].code = 500

C17_Witness ==
    /\ pc = "finalized"
    /\ ~lastStatus.set
    /\ Get(hdr, "Grpc-Status") = <<"1", "3">>
    /\ SinkCalls("WriteHeader")[1].code = 500

\* the status the specification derives from a Grpc-Status value
DerivedStatus(v) ==
    IF \E n \in 0..16 : v = DecimalOf(n)
    THEN StatusTable[(CHOOSE n \in 0..16 : v = DecimalOf(n)) + 1]
    ELSE IF v = <<"\"", "N", "O", "T", "_", "F", "O", "U", "N", "D", "\"">>
         THEN 404
         ELSE 200

\* C18: after several WriteHeader calls the code of the last one is the
\* stored status; Finalize sends it when it is not 0, and after a last call
\* with 0 sends the status derived from Grpc-Status, as if none had been set.
C18_LastStatusWins ==
    /\ lastStatus.set => statusCode = lastStatus.code
    /\ (pc = "finalized" /\ statusOverwritten) =>
           SinkCalls("WriteHeader")[1].code =
               IF lastStatus.code # 0
               THEN lastStatus.code
               ELSE DerivedStatus(Get(hdr, "Grpc-Status"))

C18_Witness ==
    /\ pc = "finalized"
    /\ statusOverwritten
    /\ lastStatus = [set |-> TRUE, code |-> 0]
    /\ Get(hdr, "Grpc-Status") = <<"5">>
    /\ SinkCalls("WriteHeader")[1].code = 404

(***************************************************************************)
(* Properties of the frame written back (specification SpecRoundTrip)      *)
(***************************************************************************)
\* the number a decimal text denotes
RECURSIVE DecimalValue(_)
DecimalValue(s) ==
    IF s = <<>> THEN Int64(0)
    ELSE LET a  == DecimalValue(SubSeq(s, 1, Len(s) - 1))
             lo == a[2] * 10 + DigitVal(s[Len(s)])
         IN  <<a[1] * 10 + (lo \div Limb), lo % Limb>>

\* C19: when all the bytes NewJsonReader returned for a payload B were
\* written to the transcoder, in one Write or several, Finalize sends exactly
\* B as the body with Content-Length len(B), whatever the frame's length
\* field says.
C19_RoundTrip ==
    (pc = "finalized" /\ rRet.stream = "jsonReader" /\ rRest = <<>>) =>
        /\ Len(SinkCalls("Write")) = 1
        /\ SinkCalls("Write")[1].body = rBody.data
        /\ DecimalValue(Get(SinkCalls("WriteHeader")[1].hdr, "Content-Length"))
               = BLen(rBody.data)

C19_Witness ==
    /\ pc = "finalized"
    /\ rRet.stream = "jsonReader"
    /\ rRest = <<>>
    /\ rReads = 2
    /\ rBody.data = <<<<1, Int64(7)>>, <<7, <<Limb, 0>>>>>>
    /\ SinkCalls("Write")[1].body = rBody.data
    /\ Get(SinkCalls("WriteHeader")[1].hdr, "Content-Length")
           = <<"4", "2", "9", "4", "9", "6", "7", "3", "0", "3">>

(***************************************************************************)
(* The frame's length field (specification SpecReader)                     *)
(***************************************************************************)
\* C20: the four length bytes of the frame NewJsonReader returns decode, as
\* a big-endian number, to the exact byte count of the payload, also for a
\* payload of 2^32 bytes or more.
C20_LengthFieldNotTruncated ==
    (rPc = "returned" /\ rRet.stream = "jsonReader" /\ rReads = 0) =>
        <<ByteAt(rRest, Int64(1)) * 256 + ByteAt(rRest, Int64(2)),
          ByteAt(rRest, Int64(3)) * 256 + ByteAt(rRest, Int64(4))>>
            = BLen(rBody.data)

====
